---------------------------- MODULE Spec2Model ----------------------------
(***************************************************************************)
(* The auto-settlement service of the ViralForge backend                   *)
(* (server/services/settlementService.js, server/models/Settlement.js,     *)
(* server/server.js) as a state machine: the cron callback and its lock,   *)
(* the scan loop, settleMarket, storeSettlementRecord and manualSettle,    *)
(* interleaved at their await points, against a ledger (the FunnyOrFud     *)
(* contract) and a store (the SettlementRecord collection).                *)
(***************************************************************************)
EXTENDS Integers, Sequences, FiniteSets, TLC

(***************************************************************************)
(* Arbitrary-precision naturals (ethers returns uint256 as BigInt):        *)
(* little-endian sequences of limbs below LimbBase, no leading zero limb.  *)
(***************************************************************************)
LimbBits == 5 * 3
LimbBase == 2 ^ LimbBits

RECURSIVE BigNorm(_)
BigNorm(a) ==
    IF a = <<>> THEN <<>>
    ELSE IF a[Len(a)] = 0 THEN BigNorm(SubSeq(a, 1, Len(a) - 1)) ELSE a

RECURSIVE BigOfNat(_)
BigOfNat(n) ==
    IF n = 0 THEN <<>> ELSE <<n % LimbBase>> \o BigOfNat(n \div LimbBase)

Limb(a, i) == IF i <= Len(a) THEN a[i] ELSE 0

Max2(x, y) == IF x >= y THEN x ELSE y

RECURSIVE AddFrom(_, _, _, _)
AddFrom(a, b, i, carry) ==
    IF i > Max2(Len(a), Len(b))
    THEN (IF carry = 0 THEN <<>> ELSE <<carry>>)
    ELSE LET s == Limb(a, i) + Limb(b, i) + carry
         IN  <<s % LimbBase>> \o AddFrom(a, b, i + 1, s \div LimbBase)

BigAdd(a, b) == BigNorm(AddFrom(a, b, 1, 0))

\* a - b for a >= b
RECURSIVE SubFrom(_, _, _, _)
SubFrom(a, b, i, borrow) ==
    IF i > Len(a) THEN <<>>
    ELSE LET d == Limb(a, i) - Limb(b, i) - borrow
         IN  IF d < 0
             THEN <<d + LimbBase>> \o SubFrom(a, b, i + 1, 1)
             ELSE <<d>> \o SubFrom(a, b, i + 1, 0)

BigSub(a, b) == BigNorm(SubFrom(a, b, 1, 0))

\* a * k for 0 <= k < LimbBase
RECURSIVE MulSmallFrom(_, _, _, _)
MulSmallFrom(a, k, i, carry) ==
    IF i > Len(a)
    THEN (IF carry = 0 THEN <<>> ELSE <<carry>>)
    ELSE LET s == a[i] * k + carry
         IN  <<s % LimbBase>> \o MulSmallFrom(a, k, i + 1, s \div LimbBase)

BigMulSmall(a, k) == BigNorm(MulSmallFrom(a, k, 1, 0))

RECURSIVE BigMul(_, _)
BigMul(a, b) ==
    IF b = <<>> THEN <<>>
    ELSE BigAdd(BigMulSmall(a, b[1]),
                BigNorm(<<0>> \o BigMul(a, SubSeq(b, 2, Len(b)))))

\* -1, 0, 1 as a < b, a = b, a > b
RECURSIVE CmpFrom(_, _, _)
CmpFrom(a, b, i) ==
    IF i = 0 THEN 0
    ELSE IF a[i] < b[i] THEN -1
    ELSE IF a[i] > b[i] THEN 1
    ELSE CmpFrom(a, b, i - 1)

BigCmp(a, b) ==
    IF Len(a) < Len(b) THEN -1
    ELSE IF Len(a) > Len(b) THEN 1
    ELSE CmpFrom(a, b, Len(a))

RECURSIVE NatBitLen(_)
NatBitLen(n) == IF n = 0 THEN 0 ELSE 1 + NatBitLen(n \div 2)

BitLen(a) ==
    IF a = <<>> THEN 0 ELSE (Len(a) - 1) * LimbBits + NatBitLen(a[Len(a)])

\* floor(a / 2^s)
BigShr(a, s) ==
    LET w == s \div LimbBits
        k == s % LimbBits
        n == Len(a) - w
    IN  IF n <= 0 THEN <<>>
        ELSE BigNorm([i \in 1..n |->
                 (a[i + w] \div (2 ^ k))
                 + (Limb(a, i + w + 1) % (2 ^ k)) * (2 ^ (LimbBits - k))])

\* a mod 2^s
BigLow(a, s) ==
    LET w == s \div LimbBits
        k == s % LimbBits
    IN  BigNorm([i \in 1..(w + 1) |->
            IF i <= w THEN Limb(a, i) ELSE Limb(a, i) % (2 ^ k)])

\* 2^s
BigPow2(s) ==
    [i \in 1..((s \div LimbBits) + 1) |->
        IF i = (s \div LimbBits) + 1 THEN 2 ^ (s % LimbBits) ELSE 0]

BigOdd(a) == a # <<>> /\ a[1] % 2 = 1

\* floor(a / d) for 0 < d < LimbBase, limb by limb from the top
RECURSIVE DivSmallFrom(_, _, _, _)
DivSmallFrom(a, d, i, rem) ==
    IF i = 0 THEN <<>>
    ELSE LET cur == rem * LimbBase + a[i]
         IN  DivSmallFrom(a, d, i - 1, cur % d) \o <<cur \div d>>

BigDivSmall(a, d) == BigNorm(DivSmallFrom(a, d, Len(a), 0))

\* the natural written by a sequence of decimal digits, most significant first
\* (each partial sum is evaluated before the next digit is read)
RECURSIVE OfDecimalFrom(_, _, _)
OfDecimalFrom(ds, i, acc) ==
    IF i > Len(ds) THEN acc
    ELSE LET nxt == BigAdd(BigMulSmall(acc, 10), BigOfNat(ds[i]))
         IN  IF Len(nxt) >= 0 THEN OfDecimalFrom(ds, i + 1, nxt) ELSE <<>>

BigOfDecimal(ds) == OfDecimalFrom(ds, 1, <<>>)

\* a mod d for 0 < d < LimbBase
RECURSIVE ModSmallFrom(_, _, _, _)
ModSmallFrom(a, d, i, rem) ==
    IF i = 0 THEN rem ELSE ModSmallFrom(a, d, i - 1, (rem * LimbBase + a[i]) % d)

BigModSmall(a, d) == ModSmallFrom(a, d, Len(a), 0)

\* BigInt.prototype.toString(): the decimal digits, most significant first
RECURSIVE ToDecimalFrom(_, _)
ToDecimalFrom(a, acc) ==
    IF a = <<>> THEN acc
    ELSE LET q == BigDivSmall(a, 10)
             d == <<BigModSmall(a, 10)>> \o acc
         IN  IF Len(q) + Len(d) >= 0 THEN ToDecimalFrom(q, d) ELSE <<>>

BigToDecimal(a) == ToDecimalFrom(a, <<>>)

BigIntToString(a) == IF a = <<>> THEN <<0>> ELSE BigToDecimal(a)

(***************************************************************************)
(* JavaScript Numbers (IEEE-754 doubles), non-negative values only: the    *)
(* value m * 2^e with m a natural of at most MantissaBits bits.            *)
(***************************************************************************)
MantissaBits == 53

\* the double nearest to n * 2^e, ties to even
RoundToDouble(n, e) ==
    IF BitLen(n) <= MantissaBits THEN [m |-> n, e |-> e]
    ELSE LET s    == BitLen(n) - MantissaBits
             q    == BigShr(n, s)
             r    == BigLow(n, s)
             half == BigPow2(s - 1)
             up   == BigCmp(r, half) = 1 \/ (BigCmp(r, half) = 0 /\ BigOdd(q))
         IN  [m |-> IF up THEN BigAdd(q, <<1>>) ELSE q, e |-> e + s]

\* Number(bigint)
ToNumber(n) == RoundToDouble(n, 0)

\* x * y in double arithmetic
NumMul(x, y) == RoundToDouble(BigMul(x.m, y.m), x.e + y.e)

\* Math.floor(x)
NumFloor(x) ==
    IF x.e >= 0 THEN x ELSE [m |-> BigShr(x.m, 0 - x.e), e |-> 0]

\* the natural an integral double (e >= 0) stands for
NumToBig(x) == BigMul(x.m, BigPow2(x.e))

\* x - y in double arithmetic, for integral x >= y
NumSub(x, y) == RoundToDouble(BigSub(NumToBig(x), NumToBig(y)), 0)

\* x > y for integral doubles
NumGreater(x, y) == BigCmp(NumToBig(x), NumToBig(y)) = 1

\* the literal 0.05: the double 0x1.999999999999Ap-5 = 7205759403792794 * 2^-57
Point05 ==
    [m |-> <<6554, 13107, 26214, 204>>, e |-> 0 - 57]

\* 10^21, from which Number.prototype.toString() switches to exponent notation
ExponentFrom == <<0, 15680, 14103, 11853, 867>>

\* Number.prototype.toString() of an integral double: its decimal digits, or
\* a string in exponent notation, which is no decimal integer
NumberToString(x) ==
    IF BigCmp(NumToBig(x), ExponentFrom) = -1
    THEN BigIntToString(NumToBig(x))
    ELSE <<"e">>

\* the natural a string of decimal digits writes
ParseDecimal(str) == BigOfDecimal(str)

(***************************************************************************)
(* Bounds of the model.                                                    *)
(***************************************************************************)
NumMarkets == 2     \* markets the ledger holds, at most
MaxTime    == 1     \* the clock runs 0..MaxTime
MaxVotes   == 1     \* votes cast on one market
MaxScans   == 2     \* cron callbacks that can be in flight at once
MaxManual  == 1     \* manualSettle calls that can be in flight at once
MaxSkips   == 1     \* skipped ticks counted during one scan
MaxReceipts == 2    \* confirmed releaseRewards counted per market
MaxTally   == 2     \* the tallies 0..MaxTally of the sampled snapshots
MaxStake   == 21    \* the stakes 0..MaxStake of the sampled snapshots
MaxStarts  == 2     \* calls of start() in the life of one process

\* a market closes at Duration ("6 hours", in clock units)
Duration == 1

\* parseEther("0.0001") = 10^14 wei, staked with every vote
VoteCost == <<16384, 8436, 27596, 2>>

MarketIds   == 0..(NumMarkets - 1)
ScanProcs   == 1..MaxScans
ManualProcs == (MaxScans + 1)..(MaxScans + MaxManual)
Procs       == ScanProcs \cup ManualProcs
\* a getSettlementStatus call in flight
StatusProcs == {MaxScans + MaxManual + 1}
AllProcs    == Procs \cup StatusProcs

VARIABLES
    clock,          \* Date.now() / 1000 and the ledger's block time
    marketCount,    \* contract.marketCount()
    market,         \* contract.getMarket(i), for i in MarketIds
    receipts,       \* per market, the releaseRewards transactions confirmed
    enforcing,      \* whether the ledger enforces releaseRewards' precondition
    store,          \* the SettlementRecord collection, in insertion order
    isRunning,      \* AutoSettlementService.isRunning
    proc,           \* per cron callback / manualSettle call: its locals
    skips,          \* ticks skipped since the scan in progress began
    schedules       \* the cron tasks start() has installed

vars == <<clock, marketCount, market, receipts, enforcing, store,
          isRunning, proc, skips, schedules>>

ledgerVars == <<clock, marketCount, market, receipts, enforcing>>

\* what getMarket returns for an id that holds no market
NoMarket ==
    [endTime |-> 0, yesVotes |-> 0, noVotes |-> 0, totalStaked |-> <<>>,
     isActive |-> FALSE]

\* the locals of a callback that is not running
Idle == [pc |-> "idle", cur |-> 0, cnt |-> 0, snap |-> NoMarket, ret |-> "none"]

\* a market as the contract creates it, open for voting for Duration
NewMarket ==
    [endTime |-> Duration, yesVotes |-> 0, noVotes |-> 0, totalStaked |-> <<>>,
     isActive |-> TRUE]

Init ==
    /\ clock = 0
    /\ marketCount \in 0..NumMarkets
    /\ market = [m \in MarketIds |-> IF m < marketCount THEN NewMarket ELSE NoMarket]
    /\ receipts = [m \in MarketIds |-> 0]
    /\ store = <<>>
    /\ isRunning = FALSE
    /\ proc = [p \in AllProcs |-> Idle]
    /\ skips = 0
    /\ schedules = 0

(***************************************************************************)
(* The ledger: the contract behind this.contract, and its other users.     *)
(***************************************************************************)
AdvanceTime ==
    /\ clock < MaxTime
    /\ clock' = clock + 1
    /\ UNCHANGED <<marketCount, market, receipts, enforcing, store,
                   isRunning, proc, skips, schedules>>

\* contract.vote(user, marketId, voteYes, {value: voteCost})
Vote(m, voteYes) ==
    /\ m < marketCount
    /\ market[m].isActive
    /\ clock < market[m].endTime
    /\ market[m].yesVotes + market[m].noVotes < MaxVotes
    /\ market' = [market EXCEPT
                     ![m].yesVotes = @ + (IF voteYes THEN 1 ELSE 0),
                     ![m].noVotes = @ + (IF voteYes THEN 0 ELSE 1),
                     ![m].totalStaked = BigAdd(@, VoteCost)]
    /\ UNCHANGED <<clock, marketCount, receipts, enforcing, store,
                   isRunning, proc, skips, schedules>>

\* a ledger that finalizes a market whether or not it is still active
ReleaseAllowedInactive(m) ==
    /\ m < marketCount
    /\ clock >= market[m].endTime

\* releaseRewards' precondition: the reverts settleMarket tells apart,
\* "Market is not active" and "Market is still active"
ReleaseAllowed(m) ==
    /\ m < marketCount
    /\ market[m].isActive
    /\ clock >= market[m].endTime

\* whether the ledger would execute releaseRewards(m) now
LedgerAccepts(m) ==
    /\ m < marketCount
    /\ receipts[m] < MaxReceipts
    /\ enforcing => ReleaseAllowed(m)

\* the ledger after executing releaseRewards(m)
Released(m) == [market EXCEPT ![m].isActive = FALSE]

(***************************************************************************)
(* The store: SettlementRecord, with its unique index on marketId.         *)
(***************************************************************************)
RecordsOf(st, m) == {i \in DOMAIN st : st[i].marketId = m}

\* a collection whose index on marketId is not unique
DuplicateKeyNever(st, marketId) == FALSE

\* the duplicate-key error of the unique index on marketId
DuplicateKey(st, marketId) == RecordsOf(st, marketId) # {}

\* a save() that replaces the collection by its document
SavedReplacing(st, rec) == <<rec>>

\* a save() that writes its document twice
SavedTwice(st, rec) == Append(Append(st, rec), rec)

\* the collection after settlementRecord.save() resolved
Saved(st, rec) == Append(st, rec)

(***************************************************************************)
(* storeSettlementRecord: the document built from the snapshot.            *)
(***************************************************************************)
\* a comparison that gives a tie to 'funny'
WinnerSideTieFunny(yesVotes, noVotes) ==
    IF NumGreater(ToNumber(BigOfNat(noVotes)), ToNumber(BigOfNat(yesVotes)))
    THEN "lame" ELSE "funny"

WinnerSide(yesVotes, noVotes) ==
    IF NumGreater(ToNumber(BigOfNat(yesVotes)), ToNumber(BigOfNat(noVotes)))
    THEN "funny" ELSE "lame"

\* Math.floor(totalPool * 0.05)
CreatorReward(totalPool) == NumFloor(NumMul(totalPool, Point05))

\* totalPool - creatorReward
VoterRewards(totalPool, creatorReward) == NumSub(totalPool, creatorReward)

SettlementRecord(marketId, marketData, txHash) ==
    LET totalPool     == ToNumber(marketData.totalStaked)
        creatorReward == CreatorReward(totalPool)
        voterRewards  == VoterRewards(totalPool, creatorReward)
    IN  [marketId      |-> marketId,
         endTime       |-> marketData.endTime,
         totalVotes    |-> marketData.yesVotes + marketData.noVotes,
         yesVotes      |-> marketData.yesVotes,
         noVotes       |-> marketData.noVotes,
         totalStaked   |-> BigIntToString(marketData.totalStaked),
         winnerSide    |-> WinnerSide(marketData.yesVotes, marketData.noVotes),
         creatorReward |-> NumberToString(creatorReward),
         voterRewards  |-> NumberToString(voterRewards),
         settlementTx  |-> txHash]

(***************************************************************************)
(* The cron callback of start(), and checkAndSettleMarkets.                *)
(***************************************************************************)
\* a callback that does not look at the lock
LockHeldNever == FALSE

\* the check of the lock at the head of the callback
LockHeld == isRunning

IdleScans == {s \in ScanProcs : proc[s].pc = "idle"}

\* a tick while a scan is in progress: logged and skipped
\* start(): cron.schedule installs one more task with the callback
Start ==
    /\ schedules' = schedules + 1
    /\ UNCHANGED <<ledgerVars, store, isRunning, proc, skips>>

\* the start() of server.js, called once when the process comes up
ServerStart == schedules = 0 /\ Start

\* a start() by any later caller of the service
StartAgain == schedules \in 1..(MaxStarts - 1) /\ Start

TickSkip ==
    /\ schedules > 0
    /\ LockHeld
    /\ skips < MaxSkips
    /\ skips' = skips + 1
    /\ UNCHANGED <<ledgerVars, store, isRunning, proc, schedules>>

\* a tick that takes the lock and calls checkAndSettleMarkets, which runs up
\* to its first await, of marketCount()
TickRun ==
    /\ schedules > 0
    /\ ~LockHeld
    /\ IdleScans # {}
    /\ LET s == CHOOSE s \in IdleScans : \A t \in IdleScans : s <= t
       IN  proc' = [proc EXCEPT ![s] = [Idle EXCEPT !.pc = "count"]]
    /\ isRunning' = TRUE
    /\ UNCHANGED <<ledgerVars, store, skips, schedules>>

\* a loop that passes over the index it should go to
LoopPast(l, i) ==
    [l EXCEPT !.pc = IF i + 1 < l.cnt THEN "fetch" ELSE "finally",
              !.cur = i + 1, !.snap = NoMarket]

\* the locals of a scan whose loop variable becomes i: the body runs up to
\* its await of getMarket(i), or the loop is left
LoopAt(l, i) ==
    [l EXCEPT !.pc = IF i < l.cnt THEN "fetch" ELSE "finally",
              !.cur = i, !.snap = NoMarket]

\* marketCount() resolved: no market ends the scan, else the loop starts
ScanCountOk(s) ==
    /\ s \in ScanProcs
    /\ proc[s].pc = "count"
    /\ proc' = [proc EXCEPT ![s] = LoopAt([@ EXCEPT !.cnt = marketCount], 0)]
    /\ UNCHANGED <<ledgerVars, store, isRunning, skips, schedules>>

\* a rejection of marketCount() that ends the callback past its finally
ScanCountFailKeepsLock(s) ==
    /\ s \in ScanProcs
    /\ proc[s].pc = "count"
    /\ proc' = [proc EXCEPT ![s] = Idle]
    /\ UNCHANGED <<ledgerVars, store, isRunning, skips, schedules>>

\* marketCount() rejected: caught by the outer catch, the scan ends
ScanCountFail(s) ==
    /\ s \in ScanProcs
    /\ proc[s].pc = "count"
    /\ proc' = [proc EXCEPT ![s] = [@ EXCEPT !.pc = "finally"]]
    /\ UNCHANGED <<ledgerVars, store, isRunning, skips, schedules>>

\* the eligibility test of the loop body on a fetched snapshot
TimeLeft(snapshot, now) == snapshot.endTime - now

\* a loop body that looks at the time left but not at the active flag
EligibleByTime(snapshot, now) == TimeLeft(snapshot, now) <= 0

\* a loop body that skips settled markets but does not look at the time left
EligibleAnyTime(snapshot, now) == snapshot.isActive

Eligible(snapshot, now) == snapshot.isActive /\ TimeLeft(snapshot, now) <= 0

\* getMarket(i) resolved: an eligible market enters settleMarket, which runs
\* up to its first await, of estimateGas; any other is passed over
ScanFetchOk(s) ==
    /\ s \in ScanProcs
    /\ proc[s].pc = "fetch"
    /\ LET l == [proc[s] EXCEPT !.ret = "none"]
           snapshot == market[l.cur]
       IN  proc' = [proc EXCEPT ![s] =
                       IF Eligible(snapshot, clock)
                       THEN [l EXCEPT !.pc = "estimate", !.snap = snapshot]
                       ELSE LoopAt(l, l.cur + 1)]
    /\ UNCHANGED <<ledgerVars, store, isRunning, skips, schedules>>

\* a scan that a rejected getMarket(i) ends
ScanFetchFailAborts(s) ==
    /\ s \in ScanProcs
    /\ proc[s].pc = "fetch"
    /\ proc' = [proc EXCEPT ![s] = [proc[s] EXCEPT !.pc = "finally",
                                                   !.ret = "error"]]
    /\ UNCHANGED <<ledgerVars, store, isRunning, skips, schedules>>

\* getMarket(i) rejected: caught by the loop's catch, which logs the error,
\* on to the next index
ScanFetchFail(s) ==
    /\ s \in ScanProcs
    /\ proc[s].pc = "fetch"
    /\ LET l == [proc[s] EXCEPT !.ret = "error"]
       IN  proc' = [proc EXCEPT ![s] = LoopAt(l, l.cur + 1)]
    /\ UNCHANGED <<ledgerVars, store, isRunning, skips, schedules>>

\* a callback that releases the lock only after a scan that settled a market
ScanFinallyIfSettled(s) ==
    /\ s \in ScanProcs
    /\ proc[s].pc = "finally"
    /\ isRunning' = (proc[s].ret # "true")
    /\ proc' = [proc EXCEPT ![s] = Idle]
    /\ skips' = 0
    /\ UNCHANGED <<ledgerVars, store, schedules>>

\* checkAndSettleMarkets returned: the finally block releases the lock
ScanFinally(s) ==
    /\ s \in ScanProcs
    /\ proc[s].pc = "finally"
    /\ isRunning' = FALSE
    /\ proc' = [proc EXCEPT ![s] = Idle]
    /\ skips' = 0
    /\ UNCHANGED <<ledgerVars, store, schedules>>

(***************************************************************************)
(* manualSettle, called by POST /api/manual-settle/:marketId.              *)
(***************************************************************************)
\* a manualSettle that waits for the lock of the scans and takes it
ManualCallTakesLock(p, m) ==
    /\ p \in ManualProcs
    /\ proc[p].pc = "idle"
    /\ m < marketCount
    /\ ~isRunning
    /\ isRunning' = TRUE
    /\ proc' = [proc EXCEPT ![p] = [Idle EXCEPT !.pc = "fetch", !.cur = m]]
    /\ UNCHANGED <<ledgerVars, store, skips, schedules>>

ManualCall(p, m) ==
    /\ p \in ManualProcs
    /\ proc[p].pc = "idle"
    /\ m < marketCount
    /\ proc' = [proc EXCEPT ![p] = [Idle EXCEPT !.pc = "fetch", !.cur = m]]
    /\ UNCHANGED <<ledgerVars, store, isRunning, skips, schedules>>

\* a manualSettle that applies the eligibility test of the scan
ManualFetchOkIfEligible(p) ==
    /\ p \in ManualProcs
    /\ proc[p].pc = "fetch"
    /\ proc' = [proc EXCEPT ![p] =
                   IF Eligible(market[proc[p].cur], clock)
                   THEN [proc[p] EXCEPT !.pc = "estimate",
                                        !.snap = market[proc[p].cur]]
                   ELSE [Idle EXCEPT !.pc = "done", !.cur = proc[p].cur,
                                     !.ret = "false"]]
    /\ UNCHANGED <<ledgerVars, store, isRunning, skips, schedules>>

\* getMarket(marketId) resolved: settleMarket is entered with the snapshot
ManualFetchOk(p) ==
    /\ p \in ManualProcs
    /\ proc[p].pc = "fetch"
    /\ proc' = [proc EXCEPT ![p] =
                   [proc[p] EXCEPT !.pc = "estimate", !.snap = market[proc[p].cur]]]
    /\ UNCHANGED <<ledgerVars, store, isRunning, skips, schedules>>

\* getMarket(marketId) rejected: manualSettle rethrows
ManualFetchFail(p) ==
    /\ p \in ManualProcs
    /\ proc[p].pc = "fetch"
    /\ proc' = [proc EXCEPT ![p] = [Idle EXCEPT !.pc = "done", !.ret = "error"]]
    /\ UNCHANGED <<ledgerVars, store, isRunning, skips, schedules>>

\* the route handler answers with what manualSettle returned or threw
ManualRespond(p) ==
    /\ p \in ManualProcs
    /\ proc[p].pc = "done"
    /\ proc' = [proc EXCEPT ![p] = Idle]
    /\ UNCHANGED <<ledgerVars, store, isRunning, skips, schedules>>

(***************************************************************************)
(* settleMarket and storeSettlementRecord, for a scan or a manual call.    *)
(***************************************************************************)
Settling == {"estimate", "submit", "wait"}

\* the hash of the transaction p sent for market m
TxHash(p, m) == <<p, m>>

\* the locals once settleMarket has returned r: a scan goes on with its
\* loop, manualSettle returns r to its caller
Returned(p, r) ==
    IF p \in ScanProcs
    THEN LoopAt([proc[p] EXCEPT !.ret = r], proc[p].cur + 1)
    ELSE [Idle EXCEPT !.pc = "done", !.cur = proc[p].cur, !.ret = r]

\* releaseRewards.estimateGas(marketId) resolved: the transaction is sent
EstimateOk(p) ==
    /\ proc[p].pc = "estimate"
    /\ LedgerAccepts(proc[p].cur)
    /\ proc' = [proc EXCEPT ![p] = [proc[p] EXCEPT !.pc = "submit"]]
    /\ UNCHANGED <<ledgerVars, store, isRunning, skips, schedules>>

\* a settleMarket that has written its record before the receipt is in
SettleFailedAfterStore(p) ==
    /\ proc' = [proc EXCEPT ![p] = Returned(p, "false")]
    /\ store' = Saved(store, SettlementRecord(proc[p].cur, proc[p].snap,
                                              TxHash(p, proc[p].cur)))

\* a settleMarket whose rejection leaves the loop of the scan
SettleFailedAborts(p) ==
    /\ proc' = [proc EXCEPT ![p] =
                   IF p \in ScanProcs
                   THEN [proc[p] EXCEPT !.pc = "finally", !.ret = "false",
                                        !.snap = NoMarket]
                   ELSE Returned(p, "false")]
    /\ UNCHANGED store

\* a rejection inside settleMarket's try: logged, false is returned
SettleFailed(p) ==
    /\ proc' = [proc EXCEPT ![p] = Returned(p, "false")]
    /\ UNCHANGED store

\* estimateGas rejected (a revert of the precondition, or the network)
EstimateFail(p) ==
    /\ proc[p].pc = "estimate"
    /\ SettleFailed(p)
    /\ UNCHANGED <<ledgerVars, isRunning, skips, schedules>>

\* releaseRewards(marketId, {gasLimit}) resolved: the transaction is pending
SubmitOk(p) ==
    /\ proc[p].pc = "submit"
    /\ proc' = [proc EXCEPT ![p] = [proc[p] EXCEPT !.pc = "wait"]]
    /\ UNCHANGED <<ledgerVars, store, isRunning, skips, schedules>>

\* releaseRewards rejected (insufficient funds, the network)
SubmitFail(p) ==
    /\ proc[p].pc = "submit"
    /\ SettleFailed(p)
    /\ UNCHANGED <<ledgerVars, isRunning, skips, schedules>>

\* tx.wait() resolved: the ledger executed releaseRewards, and
\* storeSettlementRecord builds the document and awaits its save()
WaitOk(p) ==
    /\ proc[p].pc = "wait"
    /\ LedgerAccepts(proc[p].cur)
    /\ market' = Released(proc[p].cur)
    /\ receipts' = [receipts EXCEPT ![proc[p].cur] = @ + 1]
    /\ proc' = [proc EXCEPT ![p] = [proc[p] EXCEPT !.pc = "save"]]
    /\ UNCHANGED <<clock, marketCount, enforcing, store, isRunning, skips, schedules>>

\* tx.wait() rejected: the transaction reverted or was not mined
WaitFail(p) ==
    /\ proc[p].pc = "wait"
    /\ SettleFailed(p)
    /\ UNCHANGED <<ledgerVars, isRunning, skips, schedules>>

\* save() resolved: the record is in the collection, true is returned
SaveOk(p) ==
    /\ proc[p].pc = "save"
    /\ ~DuplicateKey(store, proc[p].cur)
    /\ store' = Saved(store, SettlementRecord(proc[p].cur, proc[p].snap,
                                              TxHash(p, proc[p].cur)))
    /\ proc' = [proc EXCEPT ![p] = Returned(p, "true")]
    /\ UNCHANGED <<ledgerVars, isRunning, skips, schedules>>

\* save() rejected (a duplicate key, the database): caught and logged inside
\* storeSettlementRecord, and settleMarket still returns true
SaveFail(p) ==
    /\ proc[p].pc = "save"
    /\ proc' = [proc EXCEPT ![p] = Returned(p, "true")]
    /\ UNCHANGED <<ledgerVars, store, isRunning, skips, schedules>>

(***************************************************************************)
(* A restart of the process. Every callback is gone and the lock is reset; *)
(* of the transactions still pending, the ledger executes those in mined   *)
(* (at most one per market) and the others are dropped.                    *)
(***************************************************************************)
Pending == {proc[p].cur : p \in {q \in Procs : proc[q].pc = "wait"}}

Crash(mined) ==
    /\ mined \subseteq Pending
    /\ \A m \in mined : LedgerAccepts(m)
    /\ market' = [m \in MarketIds |->
                     IF m \in mined THEN Released(m)[m] ELSE market[m]]
    /\ receipts' = [m \in MarketIds |->
                       IF m \in mined THEN receipts[m] + 1 ELSE receipts[m]]
    /\ proc' = [p \in AllProcs |-> Idle]
    /\ isRunning' = FALSE
    /\ skips' = 0
    /\ schedules' = 0
    /\ UNCHANGED <<clock, marketCount, enforcing, store>>

(***************************************************************************)
(* getSettlementStatus, called by GET /api/settlement-status/:marketId.    *)
(***************************************************************************)
\* the decimals of an ether amount
WeiDecimals == 18

RECURSIVE Zeros(_)
Zeros(n) == IF n <= 0 THEN <<>> ELSE <<0>> \o Zeros(n - 1)

RECURSIVE StripZeros(_)
StripZeros(ds) ==
    IF Len(ds) > 1 /\ ds[Len(ds)] = 0
    THEN StripZeros(SubSeq(ds, 1, Len(ds) - 1))
    ELSE ds

\* ethers.formatEther: the wei amount in ether, with at least one digit on
\* each side of the point and no other trailing zero
FormatEther(a) ==
    LET ds     == BigIntToString(a)
        padded == Zeros(WeiDecimals + 1 - Len(ds)) \o ds
        n      == Len(padded)
    IN  SubSeq(padded, 1, n - WeiDecimals) \o <<".">>
            \o StripZeros(SubSeq(padded, n - WeiDecimals + 1, n))

\* a projection that calls every market ready once its deadline has passed
SettlementStatusByTime(marketId, snapshot, now) ==
    [marketId           |-> marketId,
     isActive           |-> snapshot.isActive,
     timeLeft           |-> TimeLeft(snapshot, now),
     readyForSettlement |-> TimeLeft(snapshot, now) <= 0,
     yesVotes           |-> snapshot.yesVotes,
     noVotes            |-> snapshot.noVotes,
     totalStaked        |-> FormatEther(snapshot.totalStaked)]

\* the object getSettlementStatus returns for a snapshot read at time now
SettlementStatus(marketId, snapshot, now) ==
    LET timeLeft == TimeLeft(snapshot, now)
    IN  [marketId           |-> marketId,
         isActive           |-> snapshot.isActive,
         timeLeft           |-> timeLeft,
         readyForSettlement |-> timeLeft <= 0 /\ snapshot.isActive,
         yesVotes           |-> snapshot.yesVotes,
         noVotes            |-> snapshot.noVotes,
         totalStaked        |-> FormatEther(snapshot.totalStaked)]

StatusCall(q, m) ==
    /\ q \in StatusProcs
    /\ proc[q].pc = "idle"
    /\ m < marketCount
    /\ proc' = [proc EXCEPT ![q] = [Idle EXCEPT !.pc = "status", !.cur = m]]
    /\ UNCHANGED <<ledgerVars, store, isRunning, skips, schedules>>

\* getMarket(marketId) resolved: the time is read and the projection returned
StatusOk(q) ==
    /\ q \in StatusProcs
    /\ proc[q].pc = "status"
    /\ proc' = [proc EXCEPT ![q] =
                   [proc[q] EXCEPT
                       !.pc = "answer", !.ret = "ok",
                       !.snap = SettlementStatus(proc[q].cur,
                                                 market[proc[q].cur], clock)]]
    /\ UNCHANGED <<ledgerVars, store, isRunning, skips, schedules>>

\* getMarket(marketId) rejected: logged and rethrown
StatusFail(q) ==
    /\ q \in StatusProcs
    /\ proc[q].pc = "status"
    /\ proc' = [proc EXCEPT ![q] = [proc[q] EXCEPT !.pc = "answer", !.ret = "error"]]
    /\ UNCHANGED <<ledgerVars, store, isRunning, skips, schedules>>

\* the route handler answers with the projection, or with status 500
StatusRespond(q) ==
    /\ q \in StatusProcs
    /\ proc[q].pc = "answer"
    /\ proc' = [proc EXCEPT ![q] = Idle]
    /\ UNCHANGED <<ledgerVars, store, isRunning, skips, schedules>>

Next ==
    \/ ServerStart
    \/ AdvanceTime
    \/ \E m \in MarketIds, voteYes \in BOOLEAN : Vote(m, voteYes)
    \/ TickSkip
    \/ TickRun
    \/ \E s \in ScanProcs :
          \/ ScanCountOk(s)
          \/ ScanCountFail(s)
          \/ ScanFetchOk(s)
          \/ ScanFetchFail(s)
          \/ ScanFinally(s)
    \/ \E p \in ManualProcs :
          \/ \E m \in MarketIds : ManualCall(p, m)
          \/ ManualFetchOk(p)
          \/ ManualFetchFail(p)
          \/ ManualRespond(p)
    \/ \E p \in Procs :
          \/ EstimateOk(p)
          \/ EstimateFail(p)
          \/ SubmitOk(p)
          \/ SubmitFail(p)
          \/ WaitOk(p)
          \/ WaitFail(p)
          \/ SaveOk(p)
          \/ SaveFail(p)
    \/ \E mined \in SUBSET MarketIds : Crash(mined)

\* the ledger enforces releaseRewards' precondition
InitEnforcing == Init /\ enforcing = TRUE

Spec == InitEnforcing /\ [][Next]_vars

\* nothing is assumed of the ledger: it may execute any releaseRewards
InitAnyLedger == Init /\ enforcing = FALSE

SpecAnyLedger == InitAnyLedger /\ [][Next]_vars

\* a step of a cron callback that has the lock: an await of it settles
ScanStep ==
    \E s \in ScanProcs :
        \/ ScanCountOk(s) \/ ScanCountFail(s)
        \/ ScanFetchOk(s) \/ ScanFetchFail(s)
        \/ EstimateOk(s) \/ EstimateFail(s)
        \/ SubmitOk(s) \/ SubmitFail(s)
        \/ WaitOk(s) \/ WaitFail(s)
        \/ SaveFail(s) \/ SaveOk(s)
        \/ ScanFinally(s)

\* every ledger and store call of a scan resolves or rejects in the end
FairSpec == Spec /\ WF_vars(ScanStep)

(***************************************************************************)
(* The record of one settlement, over sampled snapshots: one market past   *)
(* its deadline with any of the sampled tallies and stakes, settled by a   *)
(* manualSettle call whose every await resolves.                           *)
(***************************************************************************)
StakeSamples ==
    {BigOfNat(n) : n \in 0..MaxStake}
    \cup {BigOfNat(101)}
    \cup {BigMulSmall(VoteCost, k) : k \in 1..(2 * MaxTally)}
    \cup {BigAdd(BigPow2(MantissaBits), BigOfNat(n)) : n \in 0..MaxStake}

InitRecord ==
    /\ clock = Duration
    /\ marketCount = 1
    /\ \E y \in 0..MaxTally, n \in 0..MaxTally, t \in StakeSamples :
          market = [m \in MarketIds |->
                       IF m = 0
                       THEN [NewMarket EXCEPT !.yesVotes = y, !.noVotes = n,
                                              !.totalStaked = t]
                       ELSE NoMarket]
    /\ receipts = [m \in MarketIds |-> 0]
    /\ enforcing = TRUE
    /\ store = <<>>
    /\ isRunning = FALSE
    /\ proc = [p \in AllProcs |-> Idle]
    /\ skips = 0
    /\ schedules = 1

NextRecord ==
    \E p \in ManualProcs :
        \/ ManualCall(p, 0)
        \/ ManualFetchOk(p)
        \/ EstimateOk(p)
        \/ SubmitOk(p)
        \/ WaitOk(p)
        \/ SaveOk(p)
        \/ ManualRespond(p)

SpecRecord == InitRecord /\ [][NextRecord]_vars

(***************************************************************************)
(* The service when start() may be called again: the cron tasks, the       *)
(* scans and the ledger's clock.                                           *)
(***************************************************************************)
NextStart ==
    \/ ServerStart
    \/ StartAgain
    \/ AdvanceTime
    \/ TickSkip
    \/ TickRun
    \/ ScanStep

SpecStart == InitEnforcing /\ [][NextStart]_vars

(***************************************************************************)
(* The status queries, beside the ledger's clock and votes and the         *)
(* manualSettle calls that settle the markets queried.                     *)
(***************************************************************************)
NextStatus ==
    \/ AdvanceTime
    \/ \E m \in MarketIds, voteYes \in BOOLEAN : Vote(m, voteYes)
    \/ \E p \in ManualProcs :
          \/ \E m \in MarketIds : ManualCall(p, m)
          \/ ManualFetchOk(p)
          \/ ManualFetchFail(p)
          \/ ManualRespond(p)
          \/ EstimateOk(p)
          \/ EstimateFail(p)
          \/ SubmitOk(p)
          \/ SubmitFail(p)
          \/ WaitOk(p)
          \/ WaitFail(p)
          \/ SaveOk(p)
          \/ SaveFail(p)
    \/ \E q \in StatusProcs :
          \/ \E m \in MarketIds : StatusCall(q, m)
          \/ StatusOk(q)
          \/ StatusFail(q)
          \/ StatusRespond(q)

SpecStatus == InitEnforcing /\ [][NextStatus]_vars

(***************************************************************************)
(* The whole control surface at once: the scans, the manualSettle calls    *)
(* and the status queries, the restarts and the ledger's clock.  No vote   *)
(* is cast here: the tallies play no part in the lock.                     *)
(***************************************************************************)
NextSurface ==
    \/ ServerStart
    \/ AdvanceTime
    \/ TickSkip
    \/ TickRun
    \/ ScanStep
    \/ \E p \in ManualProcs :
          \/ \E m \in MarketIds : ManualCall(p, m)
          \/ ManualFetchOk(p)
          \/ ManualFetchFail(p)
          \/ ManualRespond(p)
          \/ EstimateOk(p)
          \/ EstimateFail(p)
          \/ SubmitOk(p)
          \/ SubmitFail(p)
          \/ WaitOk(p)
          \/ WaitFail(p)
          \/ SaveOk(p)
          \/ SaveFail(p)
    \/ \E mined \in SUBSET MarketIds : Crash(mined)
    \/ \E q \in StatusProcs :
          \/ \E m \in MarketIds : StatusCall(q, m)
          \/ StatusOk(q)
          \/ StatusFail(q)
          \/ StatusRespond(q)

SpecSurface == InitEnforcing /\ [][NextSurface]_vars

(***************************************************************************)
(* The claims.                                                             *)
(***************************************************************************)
InSettle(p) == proc[p].pc \in Settling \cup {"save"}

\* C1: in every reachable state there is at most one settlement record per
\* market id, whatever the interleaving of scans and manualSettle calls, and
\* even when the ledger confirms a second releaseRewards for the market.
C1_OneRecordPerMarket ==
    \A m \in MarketIds : Cardinality(RecordsOf(store, m)) <= 1

\* a save() is awaited for a market that already has its record
C1_Witness ==
    \E p \in Procs :
        /\ proc[p].pc = "save"
        /\ RecordsOf(store, proc[p].cur) # {}
        /\ receipts[proc[p].cur] = 2

C3_ScanGate ==
    \A s \in ScanProcs :
        InSettle(s) =>
            /\ proc[s].snap.isActive
            /\ TimeLeft(proc[s].snap, clock) <= 0
            /\ TimeLeft(market[proc[s].cur], clock) <= 0

\* a scan passed over market 0 and submitted releaseRewards for market 1
C3_Witness ==
    \E s \in ScanProcs :
        /\ proc[s].pc = "wait"
        /\ proc[s].cur = 1
        /\ ~market[0].isActive

\* the side with the strict majority of a tally, 'lame' without one
Majority(yesVotes, noVotes) == IF yesVotes > noVotes THEN "funny" ELSE "lame"

C5_SkipIsNoOp ==
    [][/\ Cardinality({s \in ScanProcs : proc'[s].pc # "idle"}) <= 1
       /\ skips' > skips =>
             /\ isRunning
             /\ UNCHANGED <<ledgerVars, store, isRunning, proc>>]_vars

\* a tick was skipped while a scan waits for a receipt
C5_Witness ==
    /\ skips = 1
    /\ isRunning
    /\ \E s \in ScanProcs : proc[s].pc = "wait"

\* C6: the lock is held only while a scan is in flight, whichever way the
\* scan ended, and a lock that is held is released in the end.
C6_LockReleased ==
    /\ []((\A s \in ScanProcs : proc[s].pc = "idle") => ~isRunning)
    /\ (isRunning ~> ~isRunning)

\* a scan whose last settleMarket failed is about to release the lock
C6_Witness ==
    \E s \in ScanProcs :
        proc[s].pc = "finally" /\ proc[s].ret = "false" /\ isRunning

\* C7: when the estimate, the submission or the wait for the receipt fails,
\* settleMarket returns false and the step leaves the store as it was.
C7_FailureWritesNothing ==
    [][\A p \in Procs :
          (proc[p].pc \in Settling /\ proc'[p].pc \in {"fetch", "finally", "done"})
              => proc'[p].ret = "false" /\ store' = store]_vars

\* a manualSettle returned false while the store holds no record
C7_Witness ==
    \E p \in ManualProcs :
        proc[p].pc = "done" /\ proc[p].ret = "false" /\ store = <<>>

\* C8 as stated: manualSettle has returned true only if the store holds a
\* record of that market.
C8_SuccessMeansRecorded ==
    \A p \in ManualProcs :
        (proc[p].pc = "done" /\ proc[p].ret = "true")
            => RecordsOf(store, proc[p].cur) # {}

\* C9 as stated: in every record creatorReward is floor(totalStaked * 5 / 100)
\* and creatorReward + voterRewards is totalStaked.
C9_RewardSplit ==
    \A k \in DOMAIN store :
        LET totalStaked == ParseDecimal(store[k].totalStaked)
            creator     == ParseDecimal(store[k].creatorReward)
            voters      == ParseDecimal(store[k].voterRewards)
        IN  /\ creator = BigDivSmall(BigMulSmall(totalStaked, 5), 100)
            /\ BigAdd(creator, voters) = totalStaked

\* C10: winnerSide is 'funny' exactly when yes > no, and 'lame' otherwise,
\* a tie included, whatever the rest of the snapshot.
C10_WinnerSide ==
    \A k \in DOMAIN store :
        /\ store[k].winnerSide = "funny" <=> store[k].yesVotes > store[k].noVotes
        /\ store[k].winnerSide = "lame" <=> store[k].yesVotes <= store[k].noVotes

\* the record of a tie with votes on both sides
C10_Witness ==
    \E k \in DOMAIN store :
        /\ store[k].yesVotes = store[k].noVotes
        /\ store[k].yesVotes > 0
        /\ store[k].winnerSide = "lame"

\* C11: a failed cost estimate for market X does not end the scan: the scan
\* keeps the lock and goes on with index X + 1, which it fetches when there
\* is such a market, and a market fetched after a failure enters settleMarket
\* exactly when its snapshot is eligible.
C11_EstimateFailureContinues ==
    [][\A s \in ScanProcs :
          /\ (proc[s].pc = "estimate"
                /\ proc'[s].pc \notin {"estimate", "submit", "idle"})
                => /\ proc'[s] = LoopAt([proc[s] EXCEPT !.ret = "false"],
                                        proc[s].cur + 1)
                   /\ proc[s].cur + 1 < proc[s].cnt => proc'[s].pc = "fetch"
                   /\ isRunning'
          /\ (proc[s].pc = "fetch" /\ proc[s].ret = "false"
                /\ proc'[s].pc = "estimate")
                => /\ proc'[s].cur = proc[s].cur
                   /\ Eligible(proc'[s].snap, clock)
          /\ (proc[s].pc = "fetch" /\ proc[s].ret = "false"
                /\ proc'[s].pc \notin {"estimate", "idle"}
                /\ proc'[s] # proc[s])
                => proc'[s].cur = proc[s].cur + 1]_vars

\* settleMarket(0) has returned false in a scan that now fetches market 1,
\* which is eligible; market 0 is still to be settled
C11_Witness ==
    \E s \in ScanProcs :
        /\ proc[s].pc = "fetch"
        /\ proc[s].cur = 1
        /\ proc[s].ret = "false"
        /\ Eligible(market[1], clock)
        /\ Eligible(market[0], clock)
        /\ receipts[0] = 0

\* C12: the projection getSettlementStatus returns is computed from the
\* ledger as it is when getMarket resolves: isActive and timeLeft are those
\* of the market then, readyForSettlement is (timeLeft <= 0 and active), so
\* it is true for an active market past its deadline and false, with
\* isActive false, for a settled market.
C12_StatusProjection ==
    [][\A q \in StatusProcs :
          (proc[q].pc = "status" /\ proc'[q].pc = "answer" /\ proc'[q].ret = "ok")
              => LET m      == proc[q].cur
                     status == proc'[q].snap
                 IN  /\ status.marketId = m
                     /\ status.isActive = market[m].isActive
                     /\ status.timeLeft = market[m].endTime - clock
                     /\ status.readyForSettlement
                            = (status.timeLeft <= 0 /\ status.isActive)
                     /\ (market[m].isActive /\ clock >= market[m].endTime)
                            => status.readyForSettlement
                     /\ receipts[m] > 0
                            => ~status.isActive /\ ~status.readyForSettlement]_vars

\* the status of a market with a vote, past its deadline and not yet settled
C12_Witness ==
    \E q \in StatusProcs :
        /\ proc[q].pc = "answer"
        /\ proc[q].ret = "ok"
        /\ proc[q].snap.readyForSettlement
        /\ proc[q].snap.totalStaked = <<0, ".", 0, 0, 0, 1>>
        /\ receipts[proc[q].cur] = 0

\* C13 as stated: however often start() is called, one recurring scan trigger
\* is installed.
C13_StartIdempotent == schedules <= 1

\* C14 as stated: at most one releaseRewards transaction of this process is
\* sent and neither confirmed nor failed, scans and manualSettle calls
\* counted together.
C14_OneTxInFlight ==
    Cardinality({p \in Procs : proc[p].pc = "wait"}) <= 1

C16_FetchFailureSkipsMarket ==
    [][\A s \in ScanProcs :
          /\ (proc[s].pc = "fetch" /\ proc'[s] # proc[s]
                /\ proc'[s].ret = "error")
                => /\ proc'[s] = LoopAt([proc[s] EXCEPT !.ret = "error"],
                                        proc[s].cur + 1)
                   /\ proc[s].cur + 1 < proc[s].cnt => proc'[s].pc = "fetch"
                   /\ isRunning'
                   /\ UNCHANGED <<ledgerVars, store>>
          /\ (proc[s].pc = "fetch" /\ Eligible(market[proc[s].cur], clock)
                /\ proc'[s] # proc[s] /\ proc'[s].pc \notin {"estimate", "idle"})
                => proc'[s].ret = "error"
          /\ (proc'[s].pc \in Settling /\ proc[s].pc \notin Settling)
                => /\ proc[s].pc = "fetch"
                   /\ proc'[s].cur = proc[s].cur
                   /\ proc'[s].snap = market[proc[s].cur]
          /\ (proc[s].pc # "idle" /\ proc'[s].pc \notin {"idle", "count"})
                => proc'[s].cur >= proc[s].cur]_vars

\* the fetch of market 0, which is eligible, was rejected, and the same scan
\* now fetches market 1, which is eligible too
C16_Witness ==
    \E s \in ScanProcs :
        /\ proc[s].pc = "fetch"
        /\ proc[s].cur = 1
        /\ proc[s].ret = "error"
        /\ Eligible(market[0], clock)
        /\ Eligible(market[1], clock)

\* a scan whose marketCount() was rejected although the ledger holds markets
CountFailed(s) ==
    proc[s].pc = "finally" /\ proc[s].cnt = 0 /\ marketCount > 0

\* C17: when marketCount() is rejected the scan ends at once, having fetched
\* no market and sent no transaction; the process goes on, the callback
\* reaches its finally, the lock is released and the next tick can scan.
C17_CountFailureEndsScan ==
    /\ [][\A s \in ScanProcs :
             /\ (proc[s].pc = "count" /\ proc'[s] # proc[s])
                   => \/ /\ proc'[s].pc = "fetch"
                         /\ proc'[s].cnt = marketCount
                      \/ /\ proc'[s].pc = "finally"
                         /\ proc'[s].cur = 0
                         /\ proc'[s].snap = NoMarket
                         /\ proc'[s].ret = "none"
                         /\ isRunning'
                         /\ UNCHANGED <<ledgerVars, store, schedules>>
                      \/ schedules' = 0
             /\ (CountFailed(s) /\ proc'[s] # proc[s])
                   => /\ proc'[s] = Idle
                      /\ ~isRunning'
                      /\ \/ UNCHANGED <<ledgerVars, store, schedules>>
                         \/ schedules' = 0]_vars
    /\ \A s \in ScanProcs : CountFailed(s) ~> ~isRunning

\* marketCount() was rejected in a scan that holds the lock, and a tick of
\* that scan was skipped
C17_Witness ==
    \E s \in ScanProcs : CountFailed(s) /\ isRunning /\ skips = 1

\* C18: a scan takes the indices 0, 1, ... below the marketCount() it read,
\* one after the other and each once: it starts at 0, goes from i only to
\* i + 1, fetches only indices below the count and leaves the loop only
\* past the last, and it goes to i + 1 only once index i is passed over or
\* its settleMarket, record write included, has returned.
C18_IndexOrder ==
    [][\A s \in ScanProcs :
          LET l == proc[s]
              n == proc'[s]
          IN  /\ (l.pc = "count" /\ n.pc = "fetch") => n.cur = 0
              /\ (l.pc \in {"fetch"} \cup Settling \cup {"save"}) =>
                    l.cur < l.cnt
              /\ (l.pc \in {"fetch"} \cup Settling \cup {"save"}
                    /\ n.pc \notin {"idle"} /\ n # l) =>
                    /\ n.cnt = l.cnt
                    /\ n.cur \in {l.cur, l.cur + 1}
                    /\ n.cur = l.cur =>
                          /\ l.pc # "save"
                          /\ n.pc \in Settling \cup {"save"}
                    /\ n.cur = l.cur + 1 =>
                          /\ n.pc = (IF n.cur < n.cnt THEN "fetch" ELSE "finally")
                          /\ l.pc \in Settling \cup {"save"}
                                => n.ret \in {"true", "false"}
                          /\ l.pc \in {"estimate", "submit"} => n.ret = "false"
                          /\ n.ret = "true" => l.pc = "save"]_vars

\* the record of market 0 is written and its settleMarket has returned true
\* to a scan that now fetches market 1
C18_Witness ==
    \E s \in ScanProcs :
        /\ proc[s].pc = "fetch"
        /\ proc[s].cur = 1
        /\ proc[s].ret = "true"
        /\ RecordsOf(store, 0) # {}

\* market m is finalized on the ledger, has no record, and no callback holds
\* a receipt for it
Orphaned(m) ==
    /\ ~market[m].isActive
    /\ receipts[m] > 0
    /\ RecordsOf(store, m) = {}
    /\ \A p \in Procs : proc[p].pc = "save" => proc[p].cur # m

\* C19: a restart that comes after a releaseRewards was confirmed (or while
\* it was pending and then mined) and before the record was written leaves
\* the market finalized without a record; every scan that fetches it
\* afterwards passes it over and writes nothing, and it stays without a
\* record for good unless the ledger confirms a second releaseRewards for
\* it, which a ledger that enforces its precondition never does.
C19_OrphanIsNeverBackfilled ==
    [][\A m \in MarketIds :
          /\ (schedules > 0 /\ schedules' = 0 /\ RecordsOf(store, m) = {}
                /\ \/ receipts'[m] > receipts[m]
                   \/ \E p \in Procs : proc[p].pc = "save" /\ proc[p].cur = m)
                => Orphaned(m)'
          /\ (Orphaned(m) /\ ~Orphaned(m)')
                => \E p \in Procs :
                      /\ proc[p].pc = "wait" /\ proc[p].cur = m
                      /\ proc'[p].pc = "save"
                      /\ ~enforcing
          /\ \A s \in ScanProcs :
                (Orphaned(m) /\ proc[s].pc = "fetch" /\ proc[s].cur = m
                   /\ proc'[s] # proc[s] /\ proc'[s].pc # "idle")
                    => /\ proc'[s].pc \in {"fetch", "finally"}
                       /\ proc'[s].cur = m + 1
                       /\ UNCHANGED <<ledgerVars, store>>]_vars

\* a scan fetches market 0, which is finalized once and has no record,
\* while no other callback is in flight
C19_Witness ==
    \E s \in ScanProcs :
        /\ proc[s].pc = "fetch"
        /\ proc[s].cur = 0
        /\ Orphaned(0)
        /\ receipts[0] = 1
        /\ \A p \in Procs \ {s} : proc[p].pc = "idle"

\* C20: the store changes only by the append of one record, by a callback
\* that holds the receipt of its own releaseRewards for that market; the
\* records already there are neither changed nor removed, and every record
\* is of a market with a confirmed releaseRewards.
C20_RecordOnlyAfterReceipt ==
    /\ [](\A k \in DOMAIN store :
             /\ receipts[store[k].marketId] > 0
             /\ ~market[store[k].marketId].isActive)
    /\ [][store' # store =>
             /\ Len(store') = Len(store) + 1
             /\ SubSeq(store', 1, Len(store)) = store
             /\ \E p \in Procs :
                   /\ proc[p].pc = "save"
                   /\ proc'[p].ret = "true"
                   /\ receipts[proc[p].cur] > 0
                   /\ store'[Len(store')].marketId = proc[p].cur
                   /\ store'[Len(store')].settlementTx = TxHash(p, proc[p].cur)]_vars

\* the store holds the records of two markets, each finalized once
C20_Witness ==
    /\ Len(store) = 2
    /\ store[1].marketId # store[2].marketId
    /\ \A k \in DOMAIN store : receipts[store[k].marketId] = 1

\* a cron callback is between taking the lock and its finally
ScanInFlight == \E s \in ScanProcs : proc[s].pc # "idle"

\* C21: isRunning is true exactly while a scan is in flight; it changes only
\* when a cron callback takes it or its finally releases it (or the process
\* restarts), never on a step of a manualSettle call or a status query, and
\* those calls start and go on whether the lock is held or not.
C21_LockIsTheScan ==
    /\ [](isRunning <=> ScanInFlight)
    /\ [](\A p \in ManualProcs :
             /\ \A m \in MarketIds :
                   (proc[p].pc = "idle" /\ m < marketCount)
                       => ENABLED ManualCall(p, m)
             /\ proc[p].pc = "fetch" => ENABLED ManualFetchOk(p))
    /\ [](\A q \in StatusProcs : \A m \in MarketIds :
             (proc[q].pc = "idle" /\ m < marketCount)
                 => ENABLED StatusCall(q, m))
    /\ [][/\ isRunning' # isRunning =>
                \/ \E s \in ScanProcs :
                      /\ proc[s].pc = "idle" /\ proc'[s].pc = "count"
                      /\ isRunning'
                \/ \E s \in ScanProcs :
                      /\ proc[s].pc = "finally" /\ proc'[s].pc = "idle"
                      /\ ~isRunning'
                \/ schedules' = 0 /\ ~isRunning'
          /\ (\E p \in ManualProcs \cup StatusProcs : proc'[p] # proc[p])
                => isRunning' = isRunning \/ schedules' = 0]_vars

\* while a scan holds the lock a manualSettle waits for its receipt and a
\* status query has been answered
C21_Witness ==
    /\ isRunning
    /\ \E p \in ManualProcs : proc[p].pc = "wait"
    /\ \E q \in StatusProcs : proc[q].pc = "answer" /\ proc[q].ret = "ok"


\* the document storeSettlementRecord would build from the ledger's market m
\* as it stands; after releaseRewards(m) was confirmed the market is inactive,
\* no vote is accepted any more, and these are its values at the confirmation
LedgerValues(m) ==
    [yesVotes    |-> market[m].yesVotes,
     noVotes     |-> market[m].noVotes,
     totalStaked |-> BigIntToString(market[m].totalStaked),
     winnerSide  |-> WinnerSide(market[m].yesVotes, market[m].noVotes)]

\* C22: the tallies, totalStaked and winnerSide of every stored settlement
\* record equal the ledger's values of its market at the moment the finalize
\* was confirmed, also when votes were cast between the fetch of the snapshot
\* and the confirmation.
C22_RecordMatchesLedger ==
    \A i \in DOMAIN store :
        LET rec == store[i]
        IN  [yesVotes    |-> rec.yesVotes,
             noVotes     |-> rec.noVotes,
             totalStaked |-> rec.totalStaked,
             winnerSide  |-> rec.winnerSide] = LedgerValues(rec.marketId)

=============================================================================
